---- MODULE Spec2Model ----
(***************************************************************************)
(* Model of cooldown_buffer (src/src/lib.rs).                              *)
(*                                                                         *)
(* Threads: the producer (owner of the returned Sender<T>), the ingestion  *)
(* worker spawned at lib.rs:88, the ThreadTimer's thread that runs the     *)
(* callback of lib.rs:100-104, and the consumer (owner of the returned     *)
(* Receiver<Vec<T>>).                                                      *)
(*                                                                         *)
(* Time is a discrete clock `now`.  A step of the worker or of the timer   *)
(* thread takes no time: the clock advances only when neither has a step   *)
(* to take (see Urgent).  The producer and the consumer are not            *)
(* constrained, so a send may fall on the very instant a deadline elapses  *)
(* and then races with the timer thread.                                   *)
(*                                                                         *)
(* Items are numbered 1, 2, ... in submission order, so that an item       *)
(* occurrence is identified by its value.                                  *)
(*                                                                         *)
(* The ThreadTimer is an external crate; it is modelled by what lib.rs     *)
(* relies on: start schedules one run of the closure a cooldown later      *)
(* unless cancel comes first, cancel on an idle timer only returns an      *)
(* error (ignored at lib.rs:94), closures run one at a time on the timer's *)
(* own thread, and a start issued while a closure runs is accepted and     *)
(* becomes due a cooldown later.  A panic in the closure ends the timer's  *)
(* thread.                                                                 *)
(***************************************************************************)
EXTENDS Naturals, Integers, Sequences, FiniteSets

\* cooldown_time, in clock units (lib.rs:79)
Cooldown == 2

\* number of send() calls the producer makes
MaxItems == 3

\* last instant of the clock
MaxTime == 6

VARIABLES
    now,            \* the clock
    sent,           \* number of send() calls made so far on item_tx
    sendTime,       \* sendTime[i]: instant of the i-th send()
    sendRes,        \* sendRes[i]: TRUE iff the i-th send() returned Ok
    producerAlive,  \* some Sender<T> handle is alive
    intake,         \* the item channel (item_tx -> item_rx)
    wpc,            \* position of the ingestion worker in its loop
    witem,          \* `item` local of the worker (0: none)
    items,          \* the Vec behind Arc<Mutex<..>> (the accumulator)
    poisoned,       \* the mutex is poisoned
    armed,          \* the ThreadTimer has a scheduled closure
    deadline,       \* instant at which the scheduled closure is due (0: none)
    cbpc,           \* position of the timer thread in the closure
    consumerAlive,  \* the Receiver<Vec<T>> handle is alive
    egress,         \* the batch channel (buffered_tx -> buffered_rx)
    received,       \* batches the consumer has taken with recv()
    closed,         \* the consumer's recv() has returned the closed indication
    lateAppends     \* history: items pushed between a closure's send and clear

vars == <<now, sent, sendTime, sendRes, producerAlive, intake, wpc, witem,
          items, poisoned, armed, deadline, cbpc, consumerAlive, egress,
          received, closed, lateAppends>>

producerVars == <<sent, sendTime, sendRes, producerAlive>>
workerVars   == <<wpc, witem, lateAppends>>
timerVars    == <<armed, deadline, cbpc>>
consumerVars == <<consumerAlive, egress, received, closed>>

----------------------------------------------------------------------------
\* Helpers

Range(s) == {s[k] : k \in 1..Len(s)}

RECURSIVE Concat(_)
Concat(ss) == IF ss = <<>> THEN <<>> ELSE Head(ss) \o Concat(Tail(ss))

\* Vec::push, as a plausible slip: the item is put in front
PushedFront(v, x) == <<x>> \o v

\* the accumulator overwritten with the new item instead of extended
PushedReplace(v, x) == <<x>>

\* Vec::push (lib.rs:95)
Pushed(v, x) == Append(v, x)

\* the timer armed one clock unit too long
DeadlineLate == now + Cooldown + 1

\* instant at which a closure scheduled now is due (lib.rs:100)
Deadline == now + Cooldown

\* item_rx is alive as long as the worker's closure is
WorkerAlive == wpc \notin {"done", "panicked"}

\* buffered_tx kept alive outside the worker's closure
SenderLeaked == TRUE

\* some Sender<Vec<T>> is alive: buffered_tx in the worker's closure
\* (lib.rs:86), or a clone btx in a scheduled or running timer closure
\* (lib.rs:98)
SenderAlive ==
    \/ wpc \notin {"done", "panicked"}
    \/ cbpc \in {"send", "clear"}
    \/ cbpc = "idle" /\ armed

\* every batch sent on the batch channel so far, in emission order
Emitted == received \o egress

\* the worker has a step to take
WorkerEnabled ==
    \/ wpc \in {"cancel", "push", "start"}
    \/ wpc = "recv" /\ (intake # <<>> \/ ~producerAlive)

\* the timer thread has a step to take
TimerEnabled ==
    \/ cbpc \in {"send", "clear"}
    \/ cbpc = "idle" /\ armed /\ deadline <= now

\* steps that are taken before the clock advances
Urgent == WorkerEnabled \/ TimerEnabled

----------------------------------------------------------------------------
Init ==
    /\ now = 0
    /\ sent = 0
    /\ sendTime = <<>>
    /\ sendRes = <<>>
    /\ producerAlive = TRUE
    /\ intake = <<>>
    /\ wpc = "recv"
    /\ witem = 0
    /\ items = <<>>
    /\ poisoned = FALSE
    /\ armed = FALSE
    /\ deadline = 0
    /\ cbpc = "idle"
    /\ consumerAlive = TRUE
    /\ egress = <<>>
    /\ received = <<>>
    /\ closed = FALSE
    /\ lateAppends = {}

----------------------------------------------------------------------------
\* Producer

\* tx.send(item): Ok iff item_rx is alive
Send ==
    /\ producerAlive
    /\ sent < MaxItems
    /\ now + Cooldown <= MaxTime
    /\ sent' = sent + 1
    /\ sendTime' = Append(sendTime, now)
    /\ sendRes' = Append(sendRes, WorkerAlive)
    /\ intake' = IF WorkerAlive THEN Append(intake, sent + 1) ELSE intake
    /\ UNCHANGED <<now, producerAlive, workerVars, items, poisoned,
                   timerVars, consumerVars>>

\* the last Sender<T> handle is dropped
DropProducer ==
    /\ producerAlive
    /\ producerAlive' = FALSE
    /\ UNCHANGED <<now, sent, sendTime, sendRes, intake, workerVars, items,
                   poisoned, timerVars, consumerVars>>

----------------------------------------------------------------------------
\* Ingestion worker (lib.rs:88-106)

\* let item = item_rx.recv()?;   -- an item is available
WorkerRecv ==
    /\ wpc = "recv"
    /\ intake # <<>>
    /\ witem' = Head(intake)
    /\ intake' = Tail(intake)
    /\ wpc' = "cancel"
    /\ UNCHANGED <<now, producerVars, items, poisoned, timerVars,
                   consumerVars, lateAppends>>

\* the worker leaving its loop whenever the intake is empty (try_recv)
WorkerExitOnEmpty ==
    /\ wpc = "recv"
    /\ intake = <<>>
    /\ wpc' = "done"
    /\ UNCHANGED <<now, producerVars, intake, witem, items, poisoned,
                   timerVars, consumerVars, lateAppends>>

\* the worker returning as soon as the senders are gone, items still queued
WorkerExitUndrained ==
    /\ wpc = "recv"
    /\ ~producerAlive
    /\ wpc' = "done"
    /\ UNCHANGED <<now, producerVars, intake, witem, items, poisoned,
                   timerVars, consumerVars, lateAppends>>

\* let item = item_rx.recv()?;   -- RecvError: channel empty, senders gone
WorkerExit ==
    /\ wpc = "recv"
    /\ intake = <<>>
    /\ ~producerAlive
    /\ wpc' = "done"
    /\ UNCHANGED <<now, producerVars, intake, witem, items, poisoned,
                   timerVars, consumerVars, lateAppends>>

\* the worker going on without cancelling the pending closure
WorkerCancelSkipped ==
    /\ wpc = "cancel"
    /\ wpc' = "push"
    /\ UNCHANGED <<now, producerVars, intake, witem, items, poisoned,
                   timerVars, consumerVars, lateAppends>>

\* the error of cancel propagated with `?`: the worker returns when the
\* timer was not running
WorkerCancelStrict ==
    /\ wpc = "cancel"
    /\ IF armed
       THEN wpc' = "push" /\ witem' = witem
       ELSE wpc' = "done" /\ witem' = 0
    /\ armed' = FALSE
    /\ deadline' = 0
    /\ UNCHANGED <<now, producerVars, intake, items, poisoned, cbpc,
                   consumerVars, lateAppends>>

\* let _ = timer.cancel();   -- the error of an idle timer is ignored
WorkerCancel ==
    /\ wpc = "cancel"
    /\ armed' = FALSE
    /\ deadline' = 0
    /\ wpc' = "push"
    /\ UNCHANGED <<now, producerVars, intake, witem, items, poisoned, cbpc,
                   consumerVars, lateAppends>>

\* the worker recovering the guard of a poisoned mutex (into_inner) and
\* pushing all the same
WorkerPushIgnoresPoison ==
    /\ wpc = "push"
    /\ wpc' = "start"
    /\ items' = Pushed(items, witem)
    /\ lateAppends' = IF cbpc = "clear"
                         THEN lateAppends \cup {witem}
                         ELSE lateAppends
    /\ UNCHANGED <<now, producerVars, intake, witem, poisoned, timerVars,
                   consumerVars>>

\* items.lock().expect("poisoned mutex").push(item);
WorkerPush ==
    /\ wpc = "push"
    /\ IF poisoned
       THEN /\ wpc' = "panicked"
            /\ witem' = 0
            /\ intake' = <<>>
            /\ items' = items
            /\ lateAppends' = lateAppends
       ELSE /\ wpc' = "start"
            /\ witem' = witem
            /\ intake' = intake
            /\ items' = Pushed(items, witem)
            /\ lateAppends' = IF cbpc = "clear"
                                 THEN lateAppends \cup {witem}
                                 ELSE lateAppends
    /\ UNCHANGED <<now, producerVars, poisoned, timerVars, consumerVars>>

\* let _ = timer.start(cooldown_time, move || { .. });
WorkerStart ==
    /\ wpc = "start"
    /\ IF ~armed /\ cbpc # "dead"
       THEN armed' = TRUE /\ deadline' = Deadline
       ELSE UNCHANGED <<armed, deadline>>
    /\ wpc' = "recv"
    /\ witem' = 0
    /\ UNCHANGED <<now, producerVars, intake, items, poisoned, cbpc,
                   consumerVars, lateAppends>>

----------------------------------------------------------------------------
\* Timer thread (closure of lib.rs:100-104)

\* the cooldown elapsed without a cancel: the timer thread enters the closure
TimerFire ==
    /\ cbpc = "idle"
    /\ armed
    /\ deadline <= now
    /\ armed' = FALSE
    /\ deadline' = 0
    /\ cbpc' = "send"
    /\ UNCHANGED <<now, producerVars, intake, workerVars, items, poisoned,
                   consumerVars>>

\* btx.send(cloned_items.lock().expect(..).clone()).expect(..);
\* The guard is a temporary of this statement: the lock is held from the
\* clone to the end of the statement, and released before the next one.
CallbackSend ==
    /\ cbpc = "send"
    /\ IF consumerAlive
       THEN /\ egress' = Append(egress, items)
            /\ cbpc' = "clear"
            /\ poisoned' = poisoned
       ELSE /\ egress' = egress
            /\ cbpc' = "dead"
            /\ poisoned' = TRUE
    /\ UNCHANGED <<now, producerVars, intake, workerVars, items, armed,
                   deadline, consumerAlive, received, closed>>

\* the closure returning without clearing the accumulator
CallbackClearSkipped ==
    /\ cbpc = "clear"
    /\ cbpc' = "idle"
    /\ UNCHANGED <<now, producerVars, intake, workerVars, items, poisoned,
                   armed, deadline, consumerVars>>

\* cloned_items.lock().expect("poisoned mutex").clear();
CallbackClear ==
    /\ cbpc = "clear"
    /\ items' = <<>>
    /\ cbpc' = "idle"
    /\ UNCHANGED <<now, producerVars, intake, workerVars, poisoned, armed,
                   deadline, consumerVars>>

----------------------------------------------------------------------------
\* Consumer

\* rx.recv() / rx.try_recv() returning a batch
ConsumerRecv ==
    /\ consumerAlive
    /\ egress # <<>>
    /\ received' = Append(received, Head(egress))
    /\ egress' = Tail(egress)
    /\ UNCHANGED <<now, producerVars, intake, workerVars, items, poisoned,
                   timerVars, consumerAlive, closed>>

\* the Receiver<Vec<T>> handle is dropped, with the batches still queued
DropConsumer ==
    /\ consumerAlive
    /\ consumerAlive' = FALSE
    /\ egress' = <<>>
    /\ UNCHANGED <<now, producerVars, intake, workerVars, items, poisoned,
                   timerVars, received, closed>>

\* rx.recv() returning Err: the channel is empty and every Sender<Vec<T>> is
\* gone
ConsumerClosed ==
    /\ consumerAlive
    /\ ~closed
    /\ egress = <<>>
    /\ ~SenderAlive
    /\ closed' = TRUE
    /\ UNCHANGED <<now, producerVars, intake, workerVars, items, poisoned,
                   timerVars, consumerAlive, egress, received>>

----------------------------------------------------------------------------
\* The clock

Tick ==
    /\ ~Urgent
    /\ now < MaxTime
    /\ now' = now + 1
    /\ UNCHANGED <<producerVars, intake, workerVars, items, poisoned,
                   timerVars, consumerVars>>

----------------------------------------------------------------------------
Next ==
    \/ Send
    \/ DropProducer
    \/ WorkerRecv
    \/ WorkerExit
    \/ WorkerCancel
    \/ WorkerPush
    \/ WorkerStart
    \/ TimerFire
    \/ CallbackSend
    \/ CallbackClear
    \/ ConsumerRecv
    \/ DropConsumer
    \/ ConsumerClosed
    \/ Tick

Spec == Init /\ [][Next]_vars

\* Scheduling: the worker thread and the timer thread are OS threads that
\* keep running, time passes, and the consumer sits in a blocking recv().
\* Nothing obliges the producer to send or either handle to be dropped.
FairSpec ==
    /\ Spec
    /\ WF_vars(WorkerRecv \/ WorkerExit \/ WorkerCancel \/ WorkerPush
                  \/ WorkerStart)
    /\ WF_vars(TimerFire \/ CallbackSend \/ CallbackClear)
    /\ WF_vars(Tick)
    /\ WF_vars(ConsumerRecv \/ ConsumerClosed)

TypeOK ==
    /\ now \in 0..MaxTime
    /\ sent \in 0..MaxItems
    /\ Len(sendTime) = sent /\ Len(sendRes) = sent
    /\ wpc \in {"recv", "cancel", "push", "start", "done", "panicked"}
    /\ cbpc \in {"idle", "send", "clear", "dead"}
    /\ witem \in 0..MaxItems
    /\ deadline \in 0..MaxTime

----------------------------------------------------------------------------
\* Vocabulary of the properties

\* the i-th send() returned Ok
Accepted(i) == i \in 1..sent /\ sendRes[i]

\* the items of all emitted batches, in emission order
Delivered == Concat(Emitted)

\* batch number b holds item i
InBatch(i, b) == b \in 1..Len(Emitted) /\ i \in Range(Emitted[b])

\* item i is still on its way to a batch
InFlight(i) ==
    \/ i \in Range(intake)
    \/ wpc \in {"cancel", "push"} /\ witem = i
    \/ i \in Range(items)

\* nothing is scheduled and no thread has a step to take
Quiescent == ~Urgent /\ ~armed

----------------------------------------------------------------------------
\* C1 (as claimed): while the consumer handle is alive, every item whose
\* send() returned Ok is either still on its way (in the intake, in the
\* worker's hands, in the accumulator) or in an emitted batch; an append
\* made while the closure runs is not discarded by the closure's clear.
C1_NoLoss ==
    consumerAlive =>
        \A i \in 1..sent :
            Accepted(i) => InFlight(i) \/ i \in Range(Delivered)

\* C2: no item occurrence is emitted twice, neither in two batches nor
\* twice in one batch.
C2_NoDuplication ==
    \A p, q \in 1..Len(Delivered) :
        p # q => Delivered[p] # Delivered[q]

\* C2 witness: two flushes have each copied a non-empty accumulator, and
\* the second ran after an append that raced with the first.
C2_Witness ==
    /\ Len(Emitted) >= 2
    /\ Emitted[1] # <<>>
    /\ Emitted[2] # <<>>
    /\ Len(Delivered) = MaxItems

\* C3 (as claimed): between the closure's snapshot and its clear the
\* accumulator still is the snapshot, i.e. the worker has appended nothing.
C3_FlushAtomic ==
    (consumerAlive /\ cbpc = "clear") =>
        items = Emitted[Len(Emitted)]

----------------------------------------------------------------------------
\* Timing vocabulary

\* gap between the i-th send() and the next one
Gap(i) == sendTime[i + 1] - sendTime[i]

\* the sends i..j were all accepted, each less than a cooldown after the
\* one before
Burst(i, j) ==
    /\ i <= j
    /\ \A k \in i..j : Accepted(k)
    /\ \A k \in i..(j - 1) : Gap(k) < Cooldown

\* the j-th send() is followed by a cooldown without a send
SilenceAfter(j) ==
    IF j < sent THEN Gap(j) >= Cooldown
                ELSE now - sendTime[j] >= Cooldown

\* the sequence <<i, i+1, .., j>>
Interval(i, j) == [k \in 1..(j - i + 1) |-> i + k - 1]

\* what batch b holds of the items i..j, in the batch's order
Restrict(b, i, j) == SelectSeq(b, LAMBDA x : x \in i..j)

\* the step that places a batch on the batch channel
EmitStep == cbpc = "send" /\ cbpc' = "clear"

\* C4 (as claimed): once everything has settled, the items of every burst
\* (gaps below the cooldown, then a cooldown of silence) are found in
\* exactly one batch, in submission order, and in no other batch.
C4_Coalescing ==
    (consumerAlive /\ Quiescent) =>
        \A i, j \in 1..sent :
            (Burst(i, j) /\ SilenceAfter(j)) =>
                \E b \in 1..Len(Emitted) :
                    /\ Restrict(Emitted[b], i, j) = Interval(i, j)
                    /\ \A c \in 1..Len(Emitted) \ {b} :
                           Restrict(Emitted[c], i, j) = <<>>

C7_NoEmptyBatch ==
    /\ cbpc = "send" => items # <<>>
    /\ \A b \in 1..Len(Emitted) : Emitted[b] # <<>>

\* C8: the accumulator, and the concatenation of the batches the consumer
\* has received, list the items in submission order.
C8_OrderPreserved ==
    /\ \A p, q \in 1..Len(items) : p < q => items[p] < items[q]
    /\ \A p, q \in 1..Len(Concat(received)) :
           p < q => Concat(received)[p] < Concat(received)[q]

\* C8 witness: the consumer has received all items, over more than one
\* batch, one batch holding more than one item.
C8_Witness ==
    /\ Len(received) >= 2
    /\ Len(Concat(received)) = MaxItems
    /\ \E b \in 1..Len(received) : Len(received[b]) >= 2

\* C9 (as claimed): a send() made after the consumer handle was dropped
\* returns a failure.
C9_SendFailsAfterConsumerDrop ==
    [][(sent' = sent + 1 /\ ~consumerAlive) => ~sendRes'[sent']]_vars

\* C10: while the consumer handle is alive, every send() made so far
\* returned Ok, and the next one would (item_rx is still held by the
\* running worker).
C10_SendOkWhileConsumerAlive ==
    consumerAlive =>
        /\ \A i \in 1..sent : sendRes[i]
        /\ producerAlive => WorkerAlive

\* C10 witness: the last send() came after a flush and returned Ok, with
\* the consumer alive.
C10_Witness ==
    /\ consumerAlive
    /\ producerAlive
    /\ sent = MaxItems
    /\ sendRes[sent]
    /\ received # <<>>
    /\ sendTime[sent] >= Cooldown

----------------------------------------------------------------------------
\* Failure and closure vocabulary

\* a flush has found no live receiver: the closure panicked in btx.send(..)
\* .expect(..) and took the timer's thread with it
FlushFailed == cbpc = "dead"

\* no closure is scheduled or running
TimerIdle == ~armed /\ cbpc \in {"idle", "dead"}

\* C11 (as claimed): a failed flush ends the timer's thread only; the
\* mutex stays usable and the worker is not terminated by it.
C11_FailureIsolated ==
    FlushFailed => (~poisoned /\ wpc # "panicked")

\* C12: once the producer handles are gone, the worker leaves its loop,
\* every Sender<Vec<T>> is released and a consumer that keeps receiving
\* gets the closed indication (after the batches already emitted).
C12_ClosureLiveness ==
    [](~producerAlive =>
          <>(/\ ~WorkerAlive
             /\ ~SenderAlive
             /\ (closed \/ ~consumerAlive)))

\* C12 witness: the consumer has received a batch and then the closed
\* indication.
C12_Witness ==
    /\ closed
    /\ consumerAlive
    /\ received # <<>>
    /\ received[1] # <<>>

----------------------------------------------------------------------------
\* Steps of the worker and of the timer, as seen from outside

CancelStep == wpc = "cancel" /\ wpc' # "cancel"
PushStep   == wpc = "push" /\ wpc' # "push"
StartStep  == wpc = "start" /\ wpc' # "start"
FireStep   == cbpc = "idle" /\ cbpc' = "send"

\* C14 (as claimed): every dequeued item goes through one cancel, after
\* which nothing is scheduled, then its append, then one start that arms a
\* deadline at now + cooldown; and the timer fires only on an armed
\* deadline that has elapsed.
C14_OneRearmPerItem ==
    [][/\ CancelStep => (wpc' = "push" /\ ~armed')
       /\ PushStep => wpc' = "start"
       /\ StartStep => (armed' /\ deadline' = now + Cooldown)
       /\ FireStep => (armed /\ deadline <= now)]_vars

\* the timer's state: Firing while the closure runs, else Armed or Idle
TimerState ==
    IF cbpc \in {"send", "clear"} THEN "Firing"
    ELSE IF armed THEN "Armed"
    ELSE "Idle"

\* C15 (as claimed): the timer state changes only by Idle->Armed,
\* Armed->Armed (a cancel immediately followed by the re-arm of the same
\* worker iteration; the cancel half is accepted here as the first half of
\* that transition), Armed->Firing and Firing->Idle, and no deadline is
\* armed while a closure is running.
C15_TimerStateMachine ==
    [][/\ \/ TimerState' = TimerState
          \/ TimerState = "Idle" /\ TimerState' = "Armed"
          \/ TimerState = "Armed" /\ TimerState' = "Idle" /\ CancelStep
          \/ TimerState = "Armed" /\ TimerState' = "Firing"
          \/ TimerState = "Firing" /\ TimerState' = "Idle"
       /\ ~(armed' /\ cbpc' \in {"send", "clear"})]_vars

\* C16: a cancel that finds no scheduled closure leaves the worker running
\* at its append, with the accumulator, the batch channel, the mutex and
\* the timer thread untouched (no flush is triggered); and when no closure
\* is running either (first item, or first item after a completed flush)
\* the worker then appends the item and arms the timer.
C16_CancelIdempotent ==
    [][/\ (CancelStep /\ ~armed) =>
              /\ wpc' = "push"
              /\ witem' = witem
              /\ items' = items
              /\ egress' = egress
              /\ received' = received
              /\ poisoned' = poisoned
              /\ cbpc' = cbpc
              /\ ~armed'
       /\ (PushStep /\ ~armed /\ cbpc = "idle") =>
              /\ wpc' = "start"
              /\ items' = Append(items, witem)
       /\ (StartStep /\ ~armed /\ cbpc = "idle") =>
              /\ wpc' = "recv"
              /\ armed'
              /\ deadline' = now + Cooldown]_vars

\* C16 witness: item 2 came after the flush of item 1 had completed; the
\* worker's cancel found the timer idle, and the worker has appended item 2
\* and armed the timer.
C16_Witness ==
    /\ Emitted = <<(<<1>>)>>
    /\ items = <<2>>
    /\ sent >= 2
    /\ Gap(1) > Cooldown
    /\ wpc = "recv"
    /\ armed
    /\ cbpc = "idle"

\* the timer is idle and the accumulator empty: ready for the next buffering
Ready == ~armed /\ cbpc = "idle" /\ items = <<>>

\* C17: under fair scheduling, with the consumer alive, an armed deadline is
\* followed by a state with the timer idle, the accumulator empty and a
\* batch emitted; and every item that is buffered while the timer is armed
\* and no closure runs is eventually sent on the batch channel.
C17_QuiescenceLiveness ==
    /\ [](armed => <>(~consumerAlive \/ (Ready /\ Emitted # <<>>)))
    /\ \A i \in 1..MaxItems :
           []((armed /\ cbpc = "idle" /\ i \in Range(items)) =>
                 <>(~consumerAlive \/ i \in Range(Delivered)))

\* C17 witness: all items were sent, the last flush has completed and left
\* the timer idle and the accumulator empty, the consumer being alive.
C17_Witness ==
    /\ consumerAlive
    /\ sent = MaxItems
    /\ Ready
    /\ wpc = "recv"
    /\ intake = <<>>
    /\ Len(Delivered) = MaxItems

\* C18: the worker has returned from its loop only when every producer
\* handle is dropped and the intake is drained; it has panicked only after
\* a failed flush; and it is running whenever a producer handle and the
\* consumer handle are alive.
C18_IntakeClose ==
    /\ wpc = "done" => (~producerAlive /\ intake = <<>> /\ witem = 0)
    /\ wpc = "panicked" => (FlushFailed /\ poisoned)
    /\ (producerAlive /\ consumerAlive) => wpc \notin {"done", "panicked"}

\* C18 witness: the producer handle was dropped right after its sends; the
\* worker has taken every item and then returned, with the consumer alive.
C18_Witness ==
    /\ wpc = "done"
    /\ consumerAlive
    /\ sent = MaxItems
    /\ \A i \in 1..sent : Accepted(i)
    /\ intake = <<>>
    /\ Delivered # <<>>

\* C19: once the mutex is poisoned (a flush failed inside the locked
\* statement), the worker's next lock attempt ends the worker with a panic,
\* no closure runs any more, no item is appended to the accumulator and no
\* batch is emitted.
C19_LockFailureLoud ==
    [][poisoned =>
          /\ poisoned'
          /\ PushStep => wpc' = "panicked"
          /\ cbpc = "dead" /\ cbpc' = "dead"
          /\ items' = items
          /\ egress' = egress
          /\ received' = received]_vars

\* C19 witness: the worker has hit the poisoned mutex and panicked, the
\* accumulator still holding what the failed flush did not deliver.
C19_Witness ==
    /\ poisoned
    /\ wpc = "panicked"
    /\ items # <<>>
    /\ sent >= 2

\* an accepted item that has left the intake, the worker's hands and the
\* accumulator without being in any emitted batch
Lost(i) == Accepted(i) /\ ~InFlight(i) /\ i \notin Range(Delivered)

\* with the consumer alive, the lost items are exactly those appended
\* between a closure's send and its clear
LossOnlyInWindow ==
    consumerAlive =>
        \A i \in 1..sent :
            /\ Lost(i) => i \in lateAppends
            /\ i \in lateAppends => i \notin Range(Delivered)

\* C20: with the consumer alive an item is lost only if it was appended
\* between a closure's send and the same closure's clear; any other
\* appended item stays in the accumulator until a batch is emitted, and
\* the emitted batch is the whole accumulator.
C20_LossWindow ==
    [][/\ LossOnlyInWindow'
       /\ EmitStep => egress' = Append(egress, items)]_vars

\* C20 witness: item 2 was appended inside the window and is lost, item 3
\* was appended outside of it and has been delivered.
C20_Witness ==
    /\ consumerAlive
    /\ sent = 3
    /\ lateAppends = {2}
    /\ Lost(2)
    /\ 3 \in Range(Delivered)

====
